---- MODULE Spec2Model ----
(***************************************************************************)
(* The two conformance harnesses of the OpenTrust Protocol specification   *)
(* repository:                                                             *)
(*   TV = tools/test-runner/validate_vectors.py  (TestVectorValidator)     *)
(*   CV = tools/validator/check_conformance.py   (ConformanceValidator)    *)
(* Each drives a candidate SDK through a fixed sequence of probes and      *)
(* scores the outcome.  One step of the model is one probe (one loop       *)
(* iteration or one try block of the source).                              *)
(*                                                                         *)
(* Numbers T, I, F are held in tenths (0.8 is 8, 1.0 is 10); every triple  *)
(* used below has the same validity in tenths as in binary floating point. *)
(* Strings that are compared by content (error texts) are sequences of     *)
(* one-character strings.                                                  *)
(***************************************************************************)
EXTENDS Integers, Sequences, FiniteSets, TLC

\* ------------------------------------------------------------------ bounds
\* Longest judgments.json fixture list explored.
MaxVectors == 2
\* Number of run_validation calls made on one validator object.
MaxRuns == 2

\* ------------------------------------------------- program constants
HighlyConformant == 90
PartiallyConformant == 70

Harnesses == {"TV", "CV"}

\* ------------------------------------------------------------- fixtures
J(t, i, f) == [T |-> t, I |-> i, F |-> f]

\* Error texts a candidate constructor raises with, and the expected_error
\* substrings the fixtures carry ("sum", "max", "um", "").
ErrorMessages == { <<"s", "u", "m">>, <<"m", "a", "x">> }
ExpectedErrors == { <<>>, <<"u", "m">> }

\* A test vector is the dict of one entry of judgments.json: the key
\* expected_error is optional.  Vectors expected valid carry a valid input,
\* vectors expected invalid an input whose sum exceeds one.
ValidVectors == { [input |-> J(7, 2, 1), expected_valid |-> TRUE] }
InvalidVectors ==
    { [input |-> J(6, 5, 1), expected_valid |-> FALSE] }
    \cup { [input |-> J(6, 5, 1), expected_valid |-> FALSE, expected_error |-> e] :
             e \in ExpectedErrors }
Vectors == ValidVectors \cup InvalidVectors

RECURSIVE SeqsUpTo(_, _)
SeqsUpTo(S, n) ==
    IF n = 0 THEN { <<>> }
    ELSE LET shorter == SeqsUpTo(S, n - 1)
         IN  shorter \cup { Append(s, x) : s \in { q \in shorter : Len(q) = n - 1 }, x \in S }

\* load_test_vectors: the key for the judgment vectors is present iff
\* judgments.json exists; the vectors keep their file order.
TestVectorFiles ==
    { [has_judgments |-> FALSE, judgments |-> <<>>] }
    \cup { [has_judgments |-> TRUE, judgments |-> s] : s \in SeqsUpTo(Vectors, MaxVectors) }

\* ------------------------------------------------------------ candidate
\* What a fusion call of the candidate does: return a judgment, return an
\* object without T/I/F attributes, or raise.
Raises == [kind |-> "raise"]
Malformed == [kind |-> "malformed"]
Returns(t, i, f) == [kind |-> "judgment", T |-> t, I |-> i, F |-> f]

\* The candidate SDK is a black box fixed for the whole run:
\*   loads     whether exec_module succeeds
\*   ctor      constructor policy: "strict" accepts exactly the protocol-valid
\*             inputs, "lax" accepts everything, "broken" raises on everything
\*   msg       text of the error the constructor raises
\*   caw, opt, pess   outcome of the three operators on the two canonical inputs
\*   single    conflict_aware_weighted_average([j], [1.0])
\*   zero      conflict_aware_weighted_average([j1, j2], [0.0, 0.0])
\*   exposes   where the three operators are bound: "fuse" as attributes of
\*             sdk_module.fuse, "module" as attributes of sdk_module, "both"
\*   chain_len len(judgment.provenance_chain) for a one-element chain
\*   append    what provenance_chain.append does
CtorPolicies == {"strict", "lax", "broken"}
AppendOutcomes == {"returns", "AttributeError", "TypeError", "ValueError"}

Unloadable ==
    [loads |-> FALSE, exposes |-> "both", ctor |-> "strict", msg |-> <<"s", "u", "m">>,
     caw |-> Raises, opt |-> Raises, pess |-> Raises, single |-> Raises, zero |-> Raises,
     chain_len |-> 1, append |-> "returns"]

Bindings == {"fuse", "module", "both"}

\* TV never touches the provenance chain and looks the operators up in
\* sdk_module.fuse only; CV never runs the edge cases and looks them up in
\* sdk_module only.  The fields a harness does not read are held at one
\* value, and so are the outcomes of operators it cannot reach.
CandidatesOf(h) ==
    IF h = "TV"
    THEN [loads : {TRUE}, exposes : {"fuse"}, ctor : CtorPolicies, msg : ErrorMessages,
          caw : {Returns(7, 2, 1), Returns(7, 3, 1), Malformed},
          opt : {Returns(8, 2, 0), Raises},
          pess : {Returns(6, 3, 1), Returns(11, 0, 0)},
          single : {Returns(8, 2, 0), Returns(8, 1, 1), Raises},
          zero : {Returns(8, 1, 1), Raises},
          chain_len : {1}, append : {"returns"}]
         \cup
         [loads : {TRUE}, exposes : {"module"}, ctor : CtorPolicies, msg : ErrorMessages,
          caw : {Returns(7, 2, 1)}, opt : {Returns(8, 2, 0)}, pess : {Returns(6, 3, 1)},
          single : {Returns(8, 2, 0)}, zero : {Returns(8, 1, 1)},
          chain_len : {1}, append : {"returns"}]
    ELSE [loads : {TRUE}, exposes : {"module"}, ctor : CtorPolicies, msg : ErrorMessages,
          caw : {Returns(7, 2, 1), Returns(7, 3, 1), Malformed},
          opt : {Returns(8, 2, 0), Raises},
          pess : {Returns(6, 3, 1), Returns(11, 0, 0)},
          single : {Raises}, zero : {Raises},
          chain_len : {1, 2}, append : AppendOutcomes]
         \cup
         [loads : {TRUE}, exposes : {"fuse"}, ctor : CtorPolicies, msg : ErrorMessages,
          caw : {Returns(7, 2, 1)}, opt : {Returns(8, 2, 0)}, pess : {Returns(6, 3, 1)},
          single : {Raises}, zero : {Raises},
          chain_len : {1, 2}, append : AppendOutcomes]

\* The candidates given to both tools one after the other.
PairCandidates ==
    [loads : {TRUE}, exposes : Bindings, ctor : CtorPolicies, msg : ErrorMessages,
     caw : {Returns(7, 2, 1), Returns(7, 3, 1), Malformed},
     opt : {Returns(8, 2, 0), Raises},
     pess : {Returns(6, 3, 1), Returns(11, 0, 0)},
     single : {Returns(8, 2, 0)}, zero : {Raises},
     chain_len : {1}, append : {"TypeError"}]

\* The protocol invariant a conformant constructor enforces:
\* 0 <= T, I, F <= 1 and T + I + F <= 1.
ProtocolValid(j) ==
    /\ 0 <= j.T /\ j.T <= 10
    /\ 0 <= j.I /\ j.I <= 10
    /\ 0 <= j.F /\ j.F <= 10
    /\ j.T + j.I + j.F <= 10

\* sdk_module.NeutrosophicJudgment(T=, I=, F=, provenance_chain=): whether the
\* call raises, and with which text.
Construct(c, input) ==
    LET raised == CASE c.ctor = "strict" -> ~ProtocolValid(input)
                    [] c.ctor = "lax"    -> FALSE
                    [] OTHER             -> TRUE
    IN  [raised |-> raised, msg |-> c.msg]

\* The inputs the harnesses construct themselves.
Canonical1 == J(8, 2, 0)
Canonical2 == J(6, 3, 1)
ZeroWeights1 == J(9, 1, 9)
ZeroWeights2 == J(8, 2, 8)

FusionOps == <<"conflict_aware_weighted_average", "optimistic_fusion", "pessimistic_fusion">>

\* The candidate's answer to a fusion call; weights in tenths, <<>> for the
\* two operators that take none.
CallFusion(c, op, weights) ==
    CASE op = "optimistic_fusion"  -> c.opt
      [] op = "pessimistic_fusion" -> c.pess
      [] weights = <<10>>          -> c.single
      [] weights = <<0, 0>>        -> c.zero
      [] OTHER                     -> c.caw

\* --------------------------------------------------- validity predicates
\* TestVectorValidator._is_valid_judgment: the chained comparisons, with any
\* exception while reading the attributes turned into False.
IsValidJudgment(result) ==
    IF result.kind # "judgment" THEN FALSE
    ELSE /\ 0 <= result.T /\ result.T <= 10
         /\ 0 <= result.I /\ result.I <= 10
         /\ 0 <= result.F /\ result.F <= 10
         /\ result.T + result.I + result.F <= 10

\* Python's `needle in haystack` on strings.
IsSubstring(needle, haystack) ==
    \E k \in 0..(Len(haystack) - Len(needle)) :
        SubSeq(haystack, k + 1, k + Len(needle)) = needle

\* `expected_error and expected_error in error_msg`: an empty expected_error
\* is falsy and never matches.
MatchesExpectedError(expected_error, error_msg) ==
    /\ expected_error # <<>>
    /\ IsSubstring(expected_error, error_msg)

\* --------------------------------------- verdict of one judgment vector
\* A verdict is the glyph the probe prints (PASS, WARN, FAIL) and the amount
\* it adds to `passed`; an exception that leaves the probe is a verdict
\* whose status names the exception.
Verdict(status, counted) == [status |-> status, passed |-> counted]

\* TV_JudgmentVerdict with the else branch of `if test_case['expected_valid']`
\* lost: an invalid input the constructor accepts is counted as passed.
TV_JudgmentVerdict_AcceptsSilently(c, test_case) ==
    LET made == Construct(c, test_case.input)
        expected_error == IF "expected_error" \in DOMAIN test_case
                          THEN test_case.expected_error ELSE <<>>
    IN  IF ~made.raised
        THEN Verdict("PASS", 1)
        ELSE IF ~test_case.expected_valid
             THEN IF MatchesExpectedError(expected_error, made.msg)
                  THEN Verdict("PASS", 1)
                  ELSE Verdict("WARN", 1)
             ELSE Verdict("FAIL", 0)

\* validate_vectors.py, body of the loop of validate_judgment_creation.
TV_JudgmentVerdict(c, test_case) ==
    LET made == Construct(c, test_case.input)
        \* test_case.get('expected_error', '')
        expected_error == IF "expected_error" \in DOMAIN test_case
                          THEN test_case.expected_error ELSE <<>>
    IN  IF ~made.raised
        THEN IF test_case.expected_valid THEN Verdict("PASS", 1) ELSE Verdict("FAIL", 0)
        ELSE IF ~test_case.expected_valid
             THEN IF MatchesExpectedError(expected_error, made.msg)
                  THEN Verdict("PASS", 1)
                  ELSE Verdict("WARN", 1)
             ELSE Verdict("FAIL", 0)

\* CV_JudgmentVerdict without the `passed += 1` of the wrong-error branch.
CV_JudgmentVerdict_WarnNotCounted(c, test_case) ==
    LET made == Construct(c, test_case.input)
    IN  IF ~made.raised
        THEN IF test_case.expected_valid THEN Verdict("PASS", 1) ELSE Verdict("FAIL", 0)
        ELSE IF ~test_case.expected_valid
             THEN IF "expected_error" \notin DOMAIN test_case
                  THEN Verdict("KeyError", 0)
                  ELSE IF MatchesExpectedError(test_case.expected_error, made.msg)
                       THEN Verdict("PASS", 1)
                       ELSE Verdict("WARN", 0)
             ELSE Verdict("FAIL", 0)

\* check_conformance.py, body of the loop of validate_judgment_creation:
\* test_case['expected_error'] raises KeyError, inside the except block, when
\* the vector has no such key.
CV_JudgmentVerdict(c, test_case) ==
    LET made == Construct(c, test_case.input)
    IN  IF ~made.raised
        THEN IF test_case.expected_valid THEN Verdict("PASS", 1) ELSE Verdict("FAIL", 0)
        ELSE IF ~test_case.expected_valid
             THEN IF "expected_error" \notin DOMAIN test_case
                  THEN Verdict("KeyError", 0)
                  ELSE IF MatchesExpectedError(test_case.expected_error, made.msg)
                       THEN Verdict("PASS", 1)
                       ELSE Verdict("WARN", 1)
             ELSE Verdict("FAIL", 0)

\* ------------------------------------------------ verdict of a fusion probe
\* validate_vectors.py reaches an operator as sdk_module.fuse.<op>; a missing
\* attribute raises AttributeError inside the probe's try block.
TV_OperatorsBound(c) == c.exposes \in {"fuse", "both"}

\* check_conformance.py reaches an operator as sdk_module.<op>.
CV_OperatorsBound(c) == c.exposes \in {"module", "both"}

\* validate_vectors.py: try: result = op(...); _is_valid_judgment(result).
TV_FusionVerdict(c, op, weights) ==
    LET result == CallFusion(c, op, weights)
    IN  IF ~TV_OperatorsBound(c) THEN Verdict("FAIL", 0)
        ELSE IF result.kind = "raise" THEN Verdict("FAIL", 0)
        ELSE IF IsValidJudgment(result) THEN Verdict("PASS", 1) ELSE Verdict("FAIL", 0)

\* check_conformance.py keeps the two canonical judgments in a local that the
\* first try block binds: it stays unbound when either construction raises.
CV_JudgmentsBound(c) ==
    /\ ~Construct(c, Canonical1).raised
    /\ ~Construct(c, Canonical2).raised

\* check_conformance.py: the inline validity test of a fusion result.
CV_ResultValid(result) ==
    /\ 0 <= result.T /\ result.T <= 10
    /\ 0 <= result.I /\ result.I <= 10
    /\ 0 <= result.F /\ result.F <= 10
    /\ result.T + result.I + result.F <= 10

\* check_conformance.py: one try block of validate_fusion_operators.  The
\* validity check is inline, so an unreadable result raises AttributeError
\* into the same except clause as a raising operator; so does the NameError
\* of an unbound `judgments`.
CV_FusionVerdict(c, op, weights) ==
    LET result == CallFusion(c, op, weights)
    IN  IF ~CV_JudgmentsBound(c) THEN Verdict("FAIL", 0)
        ELSE IF ~CV_OperatorsBound(c) THEN Verdict("FAIL", 0)
        ELSE IF result.kind = "raise" THEN Verdict("FAIL", 0)
        ELSE IF result.kind = "malformed" THEN Verdict("FAIL", 0)
        ELSE IF CV_ResultValid(result) THEN Verdict("PASS", 1) ELSE Verdict("FAIL", 0)

\* ------------------------------------------------- verdicts of the edge cases
\* validate_vectors.py: single judgment fusion with weights [1.0].
TV_SingleVerdict(c) ==
    IF Construct(c, Canonical1).raised THEN Verdict("FAIL", 0)
    ELSE IF ~TV_OperatorsBound(c) THEN Verdict("FAIL", 0)
    ELSE LET result == CallFusion(c, "conflict_aware_weighted_average", <<10>>)
         IN  IF result.kind = "raise" THEN Verdict("FAIL", 0)
             ELSE IF IsValidJudgment(result) /\ result.T = 8
                  THEN Verdict("PASS", 1) ELSE Verdict("FAIL", 0)

\* validate_vectors.py: zero weights fallback; the two input judgments are
\* constructed inside the try block.
TV_ZeroWeightsVerdict(c) ==
    IF Construct(c, ZeroWeights1).raised \/ Construct(c, ZeroWeights2).raised
    THEN Verdict("FAIL", 0)
    ELSE IF ~TV_OperatorsBound(c) THEN Verdict("FAIL", 0)
    ELSE LET result == CallFusion(c, "conflict_aware_weighted_average", <<0, 0>>)
         IN  IF result.kind = "raise" THEN Verdict("FAIL", 0)
             ELSE IF IsValidJudgment(result) THEN Verdict("PASS", 1) ELSE Verdict("FAIL", 0)

\* --------------------------------------------- verdicts of the provenance probes
\* check_conformance.py: len(judgment.provenance_chain) == 1.
CV_ChainLengthVerdict(c) ==
    IF c.chain_len = 1 THEN Verdict("PASS", 1) ELSE Verdict("FAIL", 0)

\* check_conformance.py: the inner try block catches AttributeError and
\* TypeError only; any other exception leaves it.
CV_ImmutabilityVerdict(c) ==
    CASE c.append = "returns" -> Verdict("FAIL", 0)
      [] c.append \in {"AttributeError", "TypeError"} -> Verdict("PASS", 1)
      [] OTHER -> Verdict(c.append, 0)

\* ------------------------------------------------------------- scoring
RECURSIVE GCD(_, _)
GCD(a, b) == IF b = 0 THEN a ELSE GCD(b, a % b)

\* Score with the division done on integers (total_passed // total_tests).
Score_FloorDivision(total_passed, total_tests) ==
    IF total_tests > 0
    THEN [num |-> (total_passed \div total_tests) * 100, den |-> 1]
    ELSE [num |-> 0, den |-> 1]

\* (total_passed / total_tests * 100) if total_tests > 0 else 0, kept as the
\* exact fraction num/den in lowest terms.
Score(total_passed, total_tests) ==
    IF total_tests > 0
    THEN LET g == GCD(100 * total_passed, total_tests)
         IN  [num |-> (100 * total_passed) \div g, den |-> total_tests \div g]
    ELSE [num |-> 0, den |-> 1]

AtLeast(score, percent) == score.num >= percent * score.den

RECURSIVE SumOf(_, _, _)
SumOf(r, keys, field) ==
    IF keys = {} THEN 0
    ELSE LET k == CHOOSE x \in keys : TRUE
         IN  r[k][field] + SumOf(r, keys \ {k}, field)

\* sum(r['passed'] for r in results.values()) and the same for 'total', over
\* every entry the dict holds at that moment.
Overall(r) ==
    LET total_passed == SumOf(r, DOMAIN r, "passed")
        total_tests == SumOf(r, DOMAIN r, "total")
    IN  [passed |-> total_passed, total |-> total_tests,
         score |-> Score(total_passed, total_tests)]

WithOverall(r) ==
    [k \in (DOMAIN r) \cup {"overall"} |-> IF k = "overall" THEN Overall(r) ELSE r[k]]

\* main(): the exit status for the value run_validation returned.
ExitStatus(report) ==
    IF "error" \in DOMAIN report THEN 1
    ELSE IF AtLeast(report["overall"].score, HighlyConformant) THEN 0
    ELSE IF AtLeast(report["overall"].score, PartiallyConformant) THEN 1
    ELSE 2

\* ------------------------------------------------------------------ state
VARIABLES
    harness,       \* which of the two tools runs
    cand,          \* the candidate SDK at --sdk
    test_vectors,  \* what load_test_vectors reads from --test-vectors
    pc,            \* where the run stands
    idx,           \* the next probe of the category at pc
    results,       \* TV: self.results; CV: the counters of run_validation
    trace,         \* the verdict lines printed since run_validation was entered
    runs,          \* calls of run_validation made on the validator
    reports,       \* the value each call returned, as it was on return
    exit_code,     \* status the process ended with, -1 while it runs
    uncaught,      \* the exception that left run_validation, if one did
    tv_counts      \* what TV counted, once the same SDK and test vectors have
                   \* been handed to CV after it

vars == <<harness, cand, test_vectors, pc, idx, results, trace, runs, reports,
          exit_code, uncaught, tv_counts>>

NotRun == [ran |-> FALSE]

NoException == [type |-> "none", origin |-> "none"]

\* TestVectorValidator.__init__: the three category records of self.results.
TV_InitResults ==
    [judgment_creation |-> [passed |-> 0, total |-> 0, details |-> <<>>],
     fusion_operators  |-> [passed |-> 0, total |-> 0, details |-> <<>>],
     edge_cases        |-> [passed |-> 0, total |-> 0, details |-> <<>>]]

\* ConformanceValidator: passed = 0, total = 0 at the head of each of the
\* three validate_* methods; run_validation starts from results = {}.
CV_InitResults ==
    [judgment_creation |-> [passed |-> 0, total |-> 0],
     fusion_operators  |-> [passed |-> 0, total |-> 0],
     provenance_chain  |-> [passed |-> 0, total |-> 0]]

Init ==
    /\ harness \in Harnesses
    /\ cand \in CandidatesOf(harness) \cup {Unloadable}
    /\ test_vectors \in TestVectorFiles
    /\ pc = "run_validation"
    /\ idx = 0
    /\ results = IF harness = "TV" THEN TV_InitResults ELSE CV_InitResults
    /\ trace = <<>>
    /\ runs = 0
    /\ reports = <<>>
    /\ exit_code = -1
    /\ uncaught = NoException
    /\ tv_counts = NotRun

Line(category, test, status) == [category |-> category, test |-> test, status |-> status]

\* TV: one probe's bookkeeping on self.results[category].
TV_Record(r, category, test, verdict) ==
    [r EXCEPT ![category] =
        [passed  |-> @.passed + verdict.passed,
         total   |-> @.total + 1,
         details |-> Append(@.details, [test |-> test, status |-> verdict.status])]]

\* CV: one probe's bookkeeping on the local passed and total.
CV_Record(r, category, verdict) ==
    [r EXCEPT ![category] =
        [passed |-> @.passed + verdict.passed, total |-> @.total + 1]]

\* An exception nobody catches ends the interpreter with status 1.
Propagate(type, origin) ==
    /\ pc' = "crashed"
    /\ uncaught' = [type |-> type, origin |-> origin]
    /\ exit_code' = 1

\* ------------------------------------------------- TestVectorValidator (TV)
\* run_validation, up to the first category: load the SDK module, then the
\* test vectors.  A module that fails to load ends the call with an error
\* value.
TV_LoadSdk ==
    /\ harness = "TV" /\ pc = "run_validation"
    /\ runs' = runs + 1
    /\ trace' = <<>>
    /\ IF cand.loads
       THEN /\ pc' = "judgment_creation" /\ idx' = 1
            /\ UNCHANGED reports
       ELSE /\ pc' = "returned" /\ idx' = 0
            /\ reports' = Append(reports, [error |-> TRUE])
    /\ UNCHANGED <<tv_counts, harness, cand, test_vectors, results, exit_code, uncaught>>

\* One iteration of the loop of validate_judgment_creation.
TV_JudgmentCreation ==
    /\ harness = "TV" /\ pc = "judgment_creation"
    /\ test_vectors.has_judgments /\ idx <= Len(test_vectors.judgments)
    /\ LET verdict == TV_JudgmentVerdict(cand, test_vectors.judgments[idx])
       IN  /\ results' = TV_Record(results, "judgment_creation", idx, verdict)
           /\ trace' = Append(trace, Line("judgment_creation", idx, verdict.status))
    /\ idx' = idx + 1
    /\ UNCHANGED <<tv_counts, harness, cand, test_vectors, pc, runs, reports, exit_code, uncaught>>

\* The loop is over, or was skipped because judgments.json does not exist.
TV_JudgmentCreationEnd ==
    /\ harness = "TV" /\ pc = "judgment_creation"
    /\ ~test_vectors.has_judgments \/ idx > Len(test_vectors.judgments)
    /\ pc' = "fusion_operators" /\ idx' = 0
    /\ UNCHANGED <<tv_counts, harness, cand, test_vectors, results, trace, runs, reports,
                   exit_code, uncaught>>

\* validate_fusion_operators, the list of the two canonical judgments: built
\* outside any try block.
TV_FusionJudgments ==
    /\ harness = "TV" /\ pc = "fusion_operators" /\ idx = 0
    /\ IF Construct(cand, Canonical1).raised \/ Construct(cand, Canonical2).raised
       THEN /\ Propagate("Exception", "candidate")
            /\ UNCHANGED idx
       ELSE /\ idx' = 1
            /\ UNCHANGED <<pc, uncaught, exit_code>>
    /\ UNCHANGED <<tv_counts, harness, cand, test_vectors, results, trace, runs, reports>>

FusionWeights(op) == IF op = "conflict_aware_weighted_average" THEN <<6, 4>> ELSE <<>>

\* validate_fusion_operators, one of its three try blocks.
TV_FusionOperator ==
    /\ harness = "TV" /\ pc = "fusion_operators" /\ idx \in 1..3
    /\ LET op == FusionOps[idx]
           verdict == TV_FusionVerdict(cand, op, FusionWeights(op))
       IN  /\ results' = TV_Record(results, "fusion_operators", op, verdict)
           /\ trace' = Append(trace, Line("fusion_operators", op, verdict.status))
    /\ IF idx < 3 THEN idx' = idx + 1 /\ UNCHANGED pc
                  ELSE idx' = 1 /\ pc' = "edge_cases"
    /\ UNCHANGED <<tv_counts, harness, cand, test_vectors, runs, reports, exit_code, uncaught>>

\* validate_edge_cases, first try block.
TV_SingleJudgmentFusion ==
    /\ harness = "TV" /\ pc = "edge_cases" /\ idx = 1
    /\ LET verdict == TV_SingleVerdict(cand)
       IN  /\ results' = TV_Record(results, "edge_cases", "single_judgment_fusion", verdict)
           /\ trace' = Append(trace, Line("edge_cases", "single_judgment_fusion", verdict.status))
    /\ idx' = 2
    /\ UNCHANGED <<tv_counts, harness, cand, test_vectors, pc, runs, reports, exit_code, uncaught>>

\* validate_edge_cases, second try block.
TV_ZeroWeightsFallback ==
    /\ harness = "TV" /\ pc = "edge_cases" /\ idx = 2
    /\ LET verdict == TV_ZeroWeightsVerdict(cand)
       IN  /\ results' = TV_Record(results, "edge_cases", "zero_weights_fallback", verdict)
           /\ trace' = Append(trace, Line("edge_cases", "zero_weights_fallback", verdict.status))
    /\ idx' = 0 /\ pc' = "overall"
    /\ UNCHANGED <<tv_counts, harness, cand, test_vectors, runs, reports, exit_code, uncaught>>

\* run_validation, the overall score: summed over every entry of
\* self.results, stored under 'overall', and self.results returned.
TV_Overall ==
    /\ harness = "TV" /\ pc = "overall"
    /\ results' = WithOverall(results)
    /\ reports' = Append(reports, results')
    /\ pc' = "returned"
    /\ UNCHANGED <<tv_counts, harness, cand, test_vectors, idx, trace, runs, exit_code, uncaught>>

\* ------------------------------------------------ ConformanceValidator (CV)
\* CV_LoadSdk without the `return {"error": ...}` of the except clause.
CV_LoadSdk_IgnoresFailure ==
    /\ harness = "CV" /\ pc = "run_validation"
    /\ runs' = runs + 1
    /\ trace' = <<>>
    /\ results' = CV_InitResults
    /\ pc' = "judgment_creation" /\ idx' = 1
    /\ UNCHANGED <<tv_counts, harness, cand, test_vectors, reports, exit_code, uncaught>>

\* run_validation, up to the first category; the test vectors were read by
\* __init__.  The counters are locals and start from zero in every call.
CV_LoadSdk ==
    /\ harness = "CV" /\ pc = "run_validation"
    /\ runs' = runs + 1
    /\ trace' = <<>>
    /\ results' = CV_InitResults
    /\ IF cand.loads
       THEN /\ pc' = "judgment_creation" /\ idx' = 1
            /\ UNCHANGED reports
       ELSE /\ pc' = "returned" /\ idx' = 0
            /\ reports' = Append(reports, [error |-> TRUE])
    /\ UNCHANGED <<tv_counts, harness, cand, test_vectors, exit_code, uncaught>>

\* One iteration of the loop of validate_judgment_creation; total is
\* incremented before the try block, so it counts a vector whose handling
\* raises.
CV_JudgmentCreation ==
    /\ harness = "CV" /\ pc = "judgment_creation"
    /\ idx <= Len(test_vectors.judgments)
    /\ LET verdict == CV_JudgmentVerdict(cand, test_vectors.judgments[idx])
       IN  /\ results' = CV_Record(results, "judgment_creation", verdict)
           /\ IF verdict.status = "KeyError"
              THEN /\ Propagate("KeyError", "harness")
                   /\ UNCHANGED <<trace, idx>>
              ELSE /\ trace' = Append(trace, Line("judgment_creation", idx, verdict.status))
                   /\ idx' = idx + 1
                   /\ UNCHANGED <<pc, uncaught, exit_code>>
    /\ UNCHANGED <<tv_counts, harness, cand, test_vectors, runs, reports>>

\* self.test_vectors.get('judgments', []) is exhausted.
CV_JudgmentCreationEnd ==
    /\ harness = "CV" /\ pc = "judgment_creation"
    /\ idx > Len(test_vectors.judgments)
    /\ pc' = "fusion_operators" /\ idx' = 1
    /\ UNCHANGED <<tv_counts, harness, cand, test_vectors, results, trace, runs, reports,
                   exit_code, uncaught>>

\* validate_fusion_operators, one of its three try blocks.
CV_FusionOperator ==
    /\ harness = "CV" /\ pc = "fusion_operators" /\ idx \in 1..3
    /\ LET op == FusionOps[idx]
           verdict == CV_FusionVerdict(cand, op, FusionWeights(op))
       IN  /\ results' = CV_Record(results, "fusion_operators", verdict)
           /\ trace' = Append(trace, Line("fusion_operators", op, verdict.status))
    /\ IF idx < 3 THEN idx' = idx + 1 /\ UNCHANGED pc
                  ELSE idx' = 1 /\ pc' = "provenance_chain"
    /\ UNCHANGED <<tv_counts, harness, cand, test_vectors, runs, reports, exit_code, uncaught>>

\* validate_provenance_chain, up to the first `total += 1`: construct the
\* judgment and compare the length of its chain.  A raising constructor is
\* caught by the outer except clause, which adds 2 to total.
CV_ProvenanceCreation ==
    /\ harness = "CV" /\ pc = "provenance_chain" /\ idx = 1
    /\ IF Construct(cand, Canonical1).raised
       THEN /\ results' = [results EXCEPT !["provenance_chain"].total = @ + 2]
            /\ trace' = Append(trace, Line("provenance_chain", "provenance_chain_tests", "FAIL"))
            /\ pc' = "overall" /\ idx' = 0
       ELSE LET verdict == CV_ChainLengthVerdict(cand)
            IN  /\ results' = CV_Record(results, "provenance_chain", verdict)
                /\ trace' = Append(trace, Line("provenance_chain", "provenance_chain_creation",
                                                verdict.status))
                /\ idx' = 2 /\ UNCHANGED pc
    /\ UNCHANGED <<tv_counts, harness, cand, test_vectors, runs, reports, exit_code, uncaught>>

\* validate_provenance_chain, the inner try block and the second
\* `total += 1`.  An exception the inner block does not catch reaches the
\* outer except clause, which adds 2 to total.
CV_ProvenanceImmutability ==
    /\ harness = "CV" /\ pc = "provenance_chain" /\ idx = 2
    /\ LET verdict == CV_ImmutabilityVerdict(cand)
       IN  IF verdict.status \in {"PASS", "FAIL"}
           THEN /\ results' = CV_Record(results, "provenance_chain", verdict)
                /\ trace' = Append(trace, Line("provenance_chain",
                                                "provenance_chain_immutability", verdict.status))
           ELSE /\ results' = [results EXCEPT !["provenance_chain"].total = @ + 2]
                /\ trace' = Append(trace, Line("provenance_chain", "provenance_chain_tests", "FAIL"))
    /\ pc' = "overall" /\ idx' = 0
    /\ UNCHANGED <<tv_counts, harness, cand, test_vectors, runs, reports, exit_code, uncaught>>

\* run_validation, the overall score over the three categories.
CV_Overall ==
    /\ harness = "CV" /\ pc = "overall"
    /\ results' = WithOverall(results)
    /\ reports' = Append(reports, results')
    /\ pc' = "returned"
    /\ UNCHANGED <<tv_counts, harness, cand, test_vectors, idx, trace, runs, exit_code, uncaught>>

\* ---------------------------------------------------------------- callers
\* main() of either tool, after run_validation returned: exit status from
\* the returned value.
Main ==
    /\ pc = "returned"
    /\ exit_code' = ExitStatus(reports[Len(reports)])
    /\ pc' = "exited"
    /\ UNCHANGED <<tv_counts, harness, cand, test_vectors, idx, results, trace, runs, reports, uncaught>>

\* A caller that holds the validator calls run_validation once more, with
\* the same SDK path and the same test-vector directory.
RunAgain ==
    /\ pc = "returned" /\ runs < MaxRuns
    /\ pc' = "run_validation"
    /\ UNCHANGED <<tv_counts, harness, cand, test_vectors, idx, results, trace, runs, reports,
                   exit_code, uncaught>>

Next ==
    \/ TV_LoadSdk
    \/ TV_JudgmentCreation
    \/ TV_JudgmentCreationEnd
    \/ TV_FusionJudgments
    \/ TV_FusionOperator
    \/ TV_SingleJudgmentFusion
    \/ TV_ZeroWeightsFallback
    \/ TV_Overall
    \/ CV_LoadSdk
    \/ CV_JudgmentCreation
    \/ CV_JudgmentCreationEnd
    \/ CV_FusionOperator
    \/ CV_ProvenanceCreation
    \/ CV_ProvenanceImmutability
    \/ CV_Overall
    \/ Main
    \/ RunAgain

Spec == Init /\ [][Next]_vars

\* ------------------------------------------- both tools on one candidate
\* The same SDK path and test-vector directory are given to
\* validate_vectors.py first and to check_conformance.py after it, each run
\* once as a process of its own.
InitPair ==
    /\ harness = "TV"
    /\ cand \in PairCandidates
    /\ test_vectors \in TestVectorFiles
    /\ pc = "run_validation"
    /\ idx = 0
    /\ results = TV_InitResults
    /\ trace = <<>>
    /\ runs = 0
    /\ reports = <<>>
    /\ exit_code = -1
    /\ uncaught = NoException
    /\ tv_counts = NotRun

Counts(r, category) == [passed |-> r[category].passed, total |-> r[category].total]

\* The validate_vectors.py process has ended, by sys.exit or by an uncaught
\* exception; its counters are kept and check_conformance.py starts on a
\* fresh ConformanceValidator.
HandOver ==
    /\ harness = "TV" /\ pc \in {"exited", "crashed"}
    /\ tv_counts' = [ran |-> TRUE,
                     judgment_creation |-> Counts(results, "judgment_creation"),
                     fusion_operators |-> Counts(results, "fusion_operators")]
    /\ harness' = "CV"
    /\ pc' = "run_validation"
    /\ idx' = 0
    /\ results' = CV_InitResults
    /\ trace' = <<>>
    /\ runs' = 0
    /\ reports' = <<>>
    /\ exit_code' = -1
    /\ uncaught' = NoException
    /\ UNCHANGED <<cand, test_vectors>>

NextPair ==
    \/ TV_LoadSdk
    \/ TV_JudgmentCreation
    \/ TV_JudgmentCreationEnd
    \/ TV_FusionJudgments
    \/ TV_FusionOperator
    \/ TV_SingleJudgmentFusion
    \/ TV_ZeroWeightsFallback
    \/ TV_Overall
    \/ HandOver
    \/ CV_LoadSdk
    \/ CV_JudgmentCreation
    \/ CV_JudgmentCreationEnd
    \/ CV_FusionOperator
    \/ CV_ProvenanceCreation
    \/ CV_ProvenanceImmutability
    \/ CV_Overall
    \/ Main

SpecPair == InitPair /\ [][NextPair]_vars

\* ------------------------------------------------------------ properties
JudgmentLines == SelectSeq(trace, LAMBDA l : l.category = "judgment_creation")
\* The lines of the fixed probes, which are named by strings.
FixedLines == SelectSeq(trace, LAMBDA l : l.category # "judgment_creation")
Ran(test) == \E k \in 1..Len(FixedLines) : FixedLines[k].test = test
StatusOf(test) ==
    FixedLines[CHOOSE k \in 1..Len(FixedLines) : FixedLines[k].test = test].status

\* e occurs in msg as a contiguous block.
OccursIn(e, msg) ==
    \E a \in 0..Len(msg) :
        /\ a + Len(e) <= Len(msg)
        /\ \A k \in 1..Len(e) : msg[a + k] = e[k]

\* C1: in the judgment-creation category a vector whose construction returns
\* is PASS when expected_valid and FAIL when not, a vector whose construction
\* raises although expected_valid is FAIL, and every FAIL adds one to the
\* category's total and nothing to its passed count.
C1_JudgmentVerdicts ==
    [][ (pc = "judgment_creation" /\ idx' = idx + 1) =>
        LET test_case == test_vectors.judgments[idx]
            made == Construct(cand, test_case.input)
            status == trace'[Len(trace')].status
            was == results.judgment_creation
            now == results'.judgment_creation
        IN  /\ (~made.raised /\ test_case.expected_valid) => status = "PASS"
            /\ (~made.raised /\ ~test_case.expected_valid) => status = "FAIL"
            /\ (made.raised /\ test_case.expected_valid) => status = "FAIL"
            /\ status = "FAIL" => (now.total = was.total + 1 /\ now.passed = was.passed)
      ]_vars

\* A vector expected invalid was accepted by the constructor and recorded FAIL.
C1_Witness ==
    \E k \in 1..Len(trace) :
        /\ trace[k].category = "judgment_creation"
        /\ trace[k].status = "FAIL"
        /\ ~test_vectors.judgments[trace[k].test].expected_valid
        /\ results.judgment_creation.total > results.judgment_creation.passed

\* C2: a vector with expected_valid = false that carries an expected_error and
\* whose construction raises is PASS when expected_error is non-empty and
\* occurs in the raised message, WARN otherwise, and adds exactly one to the
\* passed count either way.
C2_ExpectedFailureCounts ==
    [][ (pc = "judgment_creation" /\ idx' = idx + 1) =>
        LET test_case == test_vectors.judgments[idx]
            made == Construct(cand, test_case.input)
            status == trace'[Len(trace')].status
        IN  (/\ ~test_case.expected_valid
             /\ "expected_error" \in DOMAIN test_case
             /\ made.raised)
            => /\ status = IF /\ Len(test_case.expected_error) > 0
                              /\ OccursIn(test_case.expected_error, made.msg)
                           THEN "PASS" ELSE "WARN"
               /\ results'.judgment_creation.passed = results.judgment_creation.passed + 1
               /\ results'.judgment_creation.total = results.judgment_creation.total + 1
      ]_vars

\* A vector with a non-empty expected_error failed with another wording: WARN,
\* counted as passed.
C2_Witness ==
    \E k \in 1..Len(trace) :
        /\ trace[k].category = "judgment_creation"
        /\ trace[k].status = "WARN"
        /\ "expected_error" \in DOMAIN test_vectors.judgments[trace[k].test]
        /\ Len(test_vectors.judgments[trace[k].test].expected_error) > 0
        /\ results.judgment_creation.passed >= 1

\* C3: a vector with expected_valid = false and no expected_error whose
\* construction raises ends in WARN counted toward passed, and no error
\* caused by the missing field leaves the probe.
C3_AbsentExpectedError ==
    /\ uncaught.type # "KeyError"
    /\ \A k \in 1..Len(JudgmentLines) :
         LET test_case == test_vectors.judgments[JudgmentLines[k].test]
         IN  (/\ ~test_case.expected_valid
              /\ "expected_error" \notin DOMAIN test_case
              /\ Construct(cand, test_case.input).raised)
             => JudgmentLines[k].status = "WARN"

\* C4: once the candidate has loaded, no exception of a candidate operation
\* leaves run_validation.
C4_NoCandidateExceptionEscapes ==
    cand.loads => (pc # "crashed" \/ uncaught.origin # "candidate")

\* C5: the immutability probe is PASS when the append raises, whatever the
\* error, and FAIL when the append returns.
C5_AnyAppendErrorPasses ==
    (/\ harness = "CV"
     /\ pc \in {"overall", "returned", "exited"}
     /\ cand.loads
     /\ ~Construct(cand, Canonical1).raised)
    => /\ Ran("provenance_chain_immutability")
       /\ StatusOf("provenance_chain_immutability")
            = IF cand.append = "returns" THEN "FAIL" ELSE "PASS"

\* C6: every call of run_validation on the same candidate and fixtures
\* returns the same report.
C6_SameReportEveryRun ==
    \A i, j \in 1..Len(reports) : reports[i] = reports[j]

\* The report of the call that has just returned.
LastReport == reports[Len(reports)]
Scored(report) == "overall" \in DOMAIN report

\* score >= percent for the score 100 * passed / total, 0 when total = 0.
ReachesPercent(passed, total, percent) ==
    IF total = 0 THEN 0 >= percent ELSE 100 * passed >= percent * total

\* C7: the overall score of a completed run is 100 * passed / total, and 0
\* when total is 0; the exit code is 0 iff score >= 90, 1 iff
\* 70 <= score < 90 and 2 iff score < 70, so a report of zero probes exits 2
\* and a run that printed no FAIL exits 0.
C7_ScoreAndExitCode ==
    /\ \A i \in 1..Len(reports) :
         Scored(reports[i]) =>
           LET overall == reports[i]["overall"]
           IN  /\ overall.score.den > 0
               /\ overall.total = 0 => overall.score.num = 0
               /\ overall.total > 0 =>
                    overall.score.num * overall.total = 100 * overall.passed * overall.score.den
    /\ (pc = "exited" /\ Scored(LastReport)) =>
         LET overall == LastReport["overall"]
             high == ReachesPercent(overall.passed, overall.total, 90)
             part == ReachesPercent(overall.passed, overall.total, 70)
         IN  /\ exit_code = 0 <=> high
             /\ exit_code = 1 <=> (part /\ ~high)
             /\ exit_code = 2 <=> ~part
             /\ (\A k \in 1..Len(trace) : trace[k].status \in {"PASS", "WARN"}) => exit_code = 0
    /\ ExitStatus([overall |-> [passed |-> 0, total |-> 0, score |-> Score(0, 0)]]) = 2

\* A scored run ended partially conformant.
C7_Witness ==
    /\ pc = "exited" /\ Scored(LastReport)
    /\ exit_code = 1
    /\ LastReport["overall"].passed < LastReport["overall"].total

\* C8: when the candidate module fails to load no probe runs, no counter
\* changes, the call returns an error without a score, and the process exits
\* with code 1.
C8_LoadFailureShortCircuits ==
    ~cand.loads =>
      /\ pc \in {"run_validation", "returned", "exited"}
      /\ trace = <<>>
      /\ \A category \in DOMAIN results :
           results[category].passed = 0 /\ results[category].total = 0
      /\ \A i \in 1..Len(reports) : DOMAIN reports[i] = {"error"}
      /\ pc \in {"returned", "exited"} => Len(reports) = runs
      /\ pc = "exited" => exit_code = 1

\* The load failed and the process has exited.
C8_Witness ==
    /\ ~cand.loads /\ pc = "exited" /\ exit_code = 1
    /\ Len(reports) >= 1

CategoryOrder ==
    <<"judgment_creation", "fusion_operators", "provenance_chain", "edge_cases">>
Rank(category) == CHOOSE r \in 1..4 : CategoryOrder[r] = category
LinesOf(category) == SelectSeq(trace, LAMBDA l : l.category = category)
Completed == cand.loads /\ pc \in {"returned", "exited"}

\* The lines of a run never step back to an earlier category, and the k-th
\* judgment-creation line is that of the k-th vector.
InFixedOrder ==
    /\ \A a, b \in 1..Len(trace) :
         a < b => Rank(trace[a].category) <= Rank(trace[b].category)
    /\ \A k \in 1..Len(JudgmentLines) : JudgmentLines[k].test = k

\* The run has ended: run_validation returned, or an exception left it.
RunOver == cand.loads /\ pc \in {"returned", "exited", "crashed"}

\* C9: every run executes the four categories judgment creation, fusion
\* operators, provenance chain, edge cases, in that order, each finishing
\* its probes before the next starts; within judgment creation the i-th
\* recorded result is the result of the i-th vector of the fixture file,
\* with no vector skipped, repeated or reordered.
C9_AllFourCategoriesInOrder ==
    RunOver =>
      /\ InFixedOrder
      /\ Len(JudgmentLines) = Len(test_vectors.judgments)
      /\ \A r \in 2..4 : Len(LinesOf(CategoryOrder[r])) > 0
      /\ harness = "TV" =>
           /\ Len(results.judgment_creation.details) = Len(test_vectors.judgments)
           /\ \A k \in 1..Len(results.judgment_creation.details) :
                results.judgment_creation.details[k].test = k

\* What the two tools do keep: the lines of a run never step back to an
\* earlier category, a category is left only when its probes are done, TV
\* has no provenance-chain probe and CV no edge-case probe, and the k-th
\* judgment-creation line of a run is that of the k-th vector.
ThreeCategoriesInOrder ==
    /\ InFixedOrder
    /\ Len(LinesOf(IF harness = "TV" THEN "provenance_chain" ELSE "edge_cases")) = 0
    /\ Len(JudgmentLines) <= Len(test_vectors.judgments)
    /\ (pc = "judgment_creation" /\ uncaught = NoException) => Len(JudgmentLines) = idx - 1
    /\ (pc \in {"fusion_operators", "provenance_chain", "edge_cases", "overall"}
          \/ Completed)
       => Len(JudgmentLines) = Len(test_vectors.judgments)
    /\ (pc \in {"provenance_chain", "edge_cases", "overall"} \/ Completed)
       => Len(LinesOf("fusion_operators")) = 3
    /\ Completed
       => Len(LinesOf(IF harness = "TV" THEN "edge_cases" ELSE "provenance_chain")) \in 1..2

\* C10: for a candidate whose constructor accepts exactly the protocol-valid
\* inputs and whose weighted fusion returns a valid judgment for weights
\* [0.0, 0.0], the zero-weights probe records PASS.
C10_ConformantPassesZeroWeights ==
    (/\ harness = "TV"
     /\ cand.ctor = "strict"
     /\ TV_OperatorsBound(cand)
     /\ IsValidJudgment(cand.zero)
     /\ Ran("zero_weights_fallback"))
    => StatusOf("zero_weights_fallback") = "PASS"

\* C11: the single-judgment probe records PASS only when the result is valid
\* and equals the input judgment (0.8, 0.2, 0.0) in T, I and F.
C11_SingleFusionIsIdentity ==
    (/\ harness = "TV"
     /\ Ran("single_judgment_fusion")
     /\ StatusOf("single_judgment_fusion") = "PASS")
    => /\ IsValidJudgment(cand.single)
       /\ cand.single.T = Canonical1.T
       /\ cand.single.I = Canonical1.I
       /\ cand.single.F = Canonical1.F

\* The fusion-operators category of the current call is over.
FusionOver ==
    \/ pc \in {"provenance_chain", "edge_cases", "overall", "returned", "exited"}
    \/ pc = "crashed" /\ uncaught.origin = "candidate"

\* C12: the fusion-operators category records exactly three probes for every
\* candidate, one per operator; a probe is PASS iff the operator call returns
\* a result with T, I, F in [0,1] and T + I + F <= 1, and FAIL otherwise.
C12_ThreeFusionProbes ==
    (cand.loads /\ FusionOver) =>
      LET lines == LinesOf("fusion_operators")
      IN  /\ Len(lines) = 3
          /\ runs = 1 => results.fusion_operators.total = 3
          /\ \A k \in 1..Len(lines) :
               LET result == CallFusion(cand, FusionOps[k], FusionWeights(FusionOps[k]))
                   called == /\ ~Construct(cand, Canonical1).raised
                             /\ ~Construct(cand, Canonical2).raised
                             /\ IF harness = "TV" THEN TV_OperatorsBound(cand)
                                                  ELSE CV_OperatorsBound(cand)
               IN  /\ lines[k].test = FusionOps[k]
                   /\ lines[k].status \in {"PASS", "FAIL"}
                   /\ lines[k].status = "PASS"
                        <=> (called /\ result.kind = "judgment" /\ ProtocolValid(result))

RECURSIVE CountStatus(_, _)
CountStatus(lines, statuses) ==
    IF lines = <<>> THEN 0
    ELSE (IF lines[1].status \in statuses THEN 1 ELSE 0)
         + CountStatus(Tail(lines), statuses)

\* C13: the provenance-chain category is two probes: whatever the candidate
\* does, its total is 2 and its passed count is the number of the two probes
\* that passed.
C13_TwoProvenanceProbes ==
    (harness = "CV" /\ cand.loads /\ pc \in {"overall", "returned", "exited"})
    => /\ results.provenance_chain.total = 2
       /\ results.provenance_chain.passed
            = CountStatus(LinesOf("provenance_chain"), {"PASS"})
       /\ results.provenance_chain.passed <= 2

TV_Categories == {"judgment_creation", "fusion_operators", "edge_cases"}

\* C14: in TestVectorValidator, after every probe, 0 <= passed <= total, the
\* details hold one entry per probe counted in total, passed is the number
\* of details with status PASS or WARN; and at the end of a run the overall
\* passed and total are the sums of the per-category passed and total.
C14_CountersAgree ==
    harness = "TV" =>
      /\ \A category \in TV_Categories :
           LET r == results[category]
           IN  /\ 0 <= r.passed /\ r.passed <= r.total
               /\ Len(r.details) = r.total
               /\ r.passed = CountStatus(r.details, {"PASS", "WARN"})
      /\ (Completed /\ Scored(results)) =>
           /\ results["overall"].passed = SumOf(results, TV_Categories, "passed")
           /\ results["overall"].total = SumOf(results, TV_Categories, "total")

\* C14 for the first call of run_validation on a validator.
C14_CountersAgreeFirstCall == runs <= 1 => C14_CountersAgree

\* Each expected_valid = false vector of the list carries an expected_error.
EveryExpectedErrorGiven ==
    \A k \in 1..Len(test_vectors.judgments) :
        test_vectors.judgments[k].expected_valid
        \/ "expected_error" \in DOMAIN test_vectors.judgments[k]

CanonicalConstructible ==
    ~Construct(cand, Canonical1).raised /\ ~Construct(cand, Canonical2).raised

\* ConformanceValidator has finished the category, after TestVectorValidator
\* ran on the same candidate and vectors.
BothReported(category) ==
    /\ harness = "CV" /\ tv_counts.ran
    /\ IF category = "judgment_creation"
       THEN pc \in {"fusion_operators", "provenance_chain", "overall", "returned", "exited"}
       ELSE pc \in {"provenance_chain", "overall", "returned", "exited"}

SameJudgmentCounts ==
    (BothReported("judgment_creation") /\ EveryExpectedErrorGiven)
    => Counts(results, "judgment_creation") = tv_counts.judgment_creation

SameFusionCounts ==
    (BothReported("fusion_operators") /\ EveryExpectedErrorGiven /\ CanonicalConstructible)
    => Counts(results, "fusion_operators") = tv_counts.fusion_operators

\* C15: for every candidate and every list of judgment vectors in which each
\* expected_valid = false vector carries an expected_error, the two tools
\* report the same passed and total for judgment_creation, and the same
\* passed and total for fusion_operators whenever the two canonical input
\* judgments can be constructed.
C15_HarnessesAgree == SameJudgmentCounts /\ SameFusionCounts

\* C15 for the candidates that bind the operators both as sdk_module.<op> and
\* as sdk_module.fuse.<op>.
C15_HarnessesAgreeSameBinding == cand.exposes = "both" => C15_HarnessesAgree

====
